---- MODULE Spec2Model ----
(***************************************************************************)
(* Model of the installer resource preparation of revit-ballet:            *)
(*   installer/_installer-deduplicate.py  (prog = "dedup")                 *)
(*   installer/build.py                   (prog = "build")                 *)
(* Both scripts scan the per-year build directories under SOURCE_PATH,     *)
(* fingerprint every *.dll with MD5, group the occurrences of a filename   *)
(* by digest, name every group, copy one representative per group into     *)
(* OUTPUT_PATH and write OUTPUT_PATH/file-mapping.txt.                     *)
(*                                                                         *)
(* Strings are sequences of character codes, so that sorted(), the         *)
(* f-strings of the resource name and the manifest row, and ','.join are   *)
(* modelled by what they do.  File contents are abstract byte strings      *)
(* 1..MaxContent; SizeOf and Md5 are fixed functions of the content, and   *)
(* Md5 is not injective (a digest is shorter than a file).                 *)
(***************************************************************************)
EXTENDS Integers, Sequences, FiniteSets, TLC

\* ------------------------------------------------------------------ bounds
\* Number of distinct file contents the build directories may hold.
MaxContent == 4

\* ----------------------------------------------------------------- strings
\* Character codes used by the f-strings of the scripts.
UNDERSCORE == 95
DOT == 46
PIPE == 124
COMMA == 44

\* "revit-ballet.dll", the artifact _installer-deduplicate.py requires.
REQUIRED_DLL == <<114, 101, 118, 105, 116, 45, 98, 97, 108, 108, 101, 116, 46, 100, 108, 108>>
\* "a.dll"
A_DLL == <<97, 46, 100, 108, 108>>
\* "temp", the non-year directory the scripts skip
TEMP_DIR == <<116, 101, 109, 112>>
\* The three comment lines and the blank line that open file-mapping.txt.
MAPPING_HEADER ==
    << <<35, 32, 82, 101, 118, 105, 116, 32, 66, 97, 108, 108, 101, 116, 32, 73, 110, 115,
         116, 97, 108, 108, 101, 114, 32, 45, 32, 70, 105, 108, 101, 32, 77, 97, 112, 112,
         105, 110, 103>>,
       <<35, 32, 70, 111, 114, 109, 97, 116, 58, 32, 82, 101, 115, 111, 117, 114, 99, 101,
         78, 97, 109, 101, 124, 84, 97, 114, 103, 101, 116, 70, 105, 108, 101, 78, 97, 109,
         101, 124, 89, 101, 97, 114, 115, 32, 40, 99, 111, 109, 109, 97, 45, 115, 101, 112,
         97, 114, 97, 116, 101, 100, 41>>,
       <<35, 32, 84, 104, 105, 115, 32, 102, 105, 108, 101, 32, 105, 115, 32, 117, 115, 101,
         100, 32, 98, 121, 32, 116, 104, 101, 32, 105, 110, 115, 116, 97, 108, 108, 101, 114,
         32, 116, 111, 32, 107, 110, 111, 119, 32, 119, 104, 105, 99, 104, 32, 102, 105, 108,
         101, 115, 32, 116, 111, 32, 101, 120, 116, 114, 97, 99, 116, 32, 102, 111, 114, 32,
         101, 97, 99, 104, 32, 121, 101, 97, 114>>,
       <<>> >>
\* "_common."
COMMON_PREFIX == <<95, 99, 111, 109, 109, 111, 110, 46>>

\* The year directories the upstream build may produce: "2020" "2021" "2022".
Y2020 == <<50, 48, 50, 48>>
Y2021 == <<50, 48, 50, 49>>
Y2022 == <<50, 48, 50, 50>>
YearUniverse == {Y2020, Y2021, Y2022}

\* EXPECTED_YEARS of _installer-deduplicate.py ('2017' .. '2026'), restricted
\* to the year directories of the model.
EXPECTED_YEARS == YearUniverse

\* The artifact filenames a year directory may hold.
FILES == {A_DLL, REQUIRED_DLL}

\* A file's content; 0 in a directory's table stands for "no such file".
Contents == 1..MaxContent

\* The contents revit-ballet.dll takes in the model: none, and two builds
\* with different digests.
RequiredContents == {0, 1, MaxContent}

\* The contents the upstream build produces in the runs with rebuilds.
RebuildContents == {1, MaxContent}

\* st_size of a file with content c.
SizeOf(c) == (c + 1) \div 2

\* hashlib.md5(bytes).hexdigest(): a fixed function of the content whose
\* range is smaller than its domain.
calculate_md5(c) == c \div 4

\* Python's str comparison: lexicographic by code point, a proper prefix
\* is smaller.
RECURSIVE StrLess(_, _)
StrLess(a, b) ==
    IF b = <<>> THEN FALSE
    ELSE IF a = <<>> THEN TRUE
    ELSE IF Head(a) /= Head(b) THEN Head(a) < Head(b)
    ELSE StrLess(Tail(a), Tail(b))

\* str.isdigit() for a non-empty string
IsDigits(s) == s /= <<>> /\ \A i \in 1..Len(s) : s[i] \in 48..57

\* All orders in which a directory listing may enumerate the set S.
Orders(S) ==
    {q \in [1..Cardinality(S) -> S] : \A i, j \in 1..Cardinality(S) : i /= j => q[i] /= q[j]}

\* sorted(seq) for strings: stable insertion into an ascending sequence.
RECURSIVE Insert(_, _)
Insert(x, sortedSeq) ==
    IF sortedSeq = <<>> THEN <<x>>
    ELSE IF StrLess(x, Head(sortedSeq)) THEN <<x>> \o sortedSeq
    ELSE <<Head(sortedSeq)>> \o Insert(x, Tail(sortedSeq))

RECURSIVE SortedStrings(_)
SortedStrings(seq) ==
    IF seq = <<>> THEN <<>>
    ELSE Insert(seq[Len(seq)], SortedStrings(SubSeq(seq, 1, Len(seq) - 1)))

Range(seq) == {seq[i] : i \in 1..Len(seq)}

\* ------------------------------------------------------- the computation
\* The filter of the year_dirs comprehension: d.name.isdigit() and
\* len(d.name) == 4 (every entry of SOURCE_PATH in the model is a directory).
IsYearDir(name) == IsDigits(name) /\ Len(name) = 4

\* year_dirs = sorted([d for d in SOURCE_PATH.iterdir() if ...]) for the
\* order `listing` in which iterdir() yields the entries.
RECURSIVE FilterYearDirs(_)
FilterYearDirs(listing) ==
    IF listing = <<>> THEN <<>>
    ELSE (IF IsYearDir(Head(listing)) THEN <<Head(listing)>> ELSE <<>>)
         \o FilterYearDirs(Tail(listing))

\* Mutant: the list of year directories is not sorted.
YearDirs_Unsorted(listing) == FilterYearDirs(listing)

YearDirs(listing) == SortedStrings(FilterYearDirs(listing))

\* Mutant: the files are compared by size instead of by digest.
Entry_BySize(year, filename, c) ==
    [year |-> year, path |-> <<year, filename>>,
     hash |-> SizeOf(c), size |-> SizeOf(c)]

\* One record of file_database[filename] for the file `filename` of
\* directory `year`, whose content is c.
Entry(year, filename, c) ==
    [year |-> year, path |-> <<year, filename>>,
     hash |-> calculate_md5(c), size |-> SizeOf(c)]

\* The inner loop of the scan: the files of one year directory, in the
\* order glob() yields them, are appended to file_database.
RECURSIVE ScanDir(_, _, _, _)
ScanDir(db, year, files, table) ==
    IF files = <<>> THEN db
    ELSE LET f == Head(files)
             keys == IF f \in Range(db.keys) THEN db.keys ELSE Append(db.keys, f)
             ents == [db.entries EXCEPT ![f] = Append(@, Entry(year, f, table[year][f]))]
         IN  ScanDir([keys |-> keys, entries |-> ents], year, Tail(files), table)

\* The outer loop of the scan over year_dirs; glob[year] is the order in
\* which year's *.dll files are enumerated.
RECURSIVE ScanAll(_, _, _, _)
ScanAll(db, ydirs, glob, table) ==
    IF ydirs = <<>> THEN db
    ELSE ScanAll(ScanDir(db, Head(ydirs), glob[Head(ydirs)], table), Tail(ydirs), glob, table)

\* The number of calculate_md5 calls of the scan.
RECURSIVE HashedFiles(_, _)
HashedFiles(ydirs, glob) ==
    IF ydirs = <<>> THEN 0
    ELSE Len(glob[Head(ydirs)]) + HashedFiles(Tail(ydirs), glob)

\* Mutant: an entry joins the latest group only (grouping of adjacent
\* entries), else it opens a new group.
AddToGroups_Adjacent(groups, e, i) ==
    IF groups /= <<>> /\ groups[Len(groups)][1].hash = e.hash
    THEN [groups EXCEPT ![Len(groups)] = Append(@, e)]
    ELSE Append(groups, <<e>>)

\* hash_groups[entry['hash']].append(entry): the groups are kept in the
\* order in which their digest first appears (dict insertion order).
RECURSIVE AddToGroups(_, _, _)
AddToGroups(groups, e, i) ==
    IF i > Len(groups) THEN Append(groups, <<e>>)
    ELSE IF groups[i][1].hash = e.hash THEN [groups EXCEPT ![i] = Append(@, e)]
    ELSE AddToGroups(groups, e, i + 1)

\* Mutant: no grouping, every entry is a group of its own.
HashGroups_NoGrouping(entries) == [i \in 1..Len(entries) |-> <<entries[i]>>]

RECURSIVE HashGroups(_)
HashGroups(entries) ==
    IF entries = <<>> THEN <<>>
    ELSE AddToGroups(HashGroups(SubSeq(entries, 1, Len(entries) - 1)),
                     entries[Len(entries)], 1)

\* Mutant: every group is named as if it were shared by all years.
ResourceName_AlwaysCommon(filename, years, nYearDirs) ==
    IF Len(years) <= nYearDirs THEN COMMON_PREFIX \o filename
    ELSE <<UNDERSCORE>> \o years[1] \o <<DOT>> \o filename

\* Mutant: a group shared by some years is named after its latest year.
ResourceName_LastYear(filename, years, nYearDirs) ==
    IF Len(years) = nYearDirs THEN COMMON_PREFIX \o filename
    ELSE <<UNDERSCORE>> \o years[Len(years)] \o <<DOT>> \o filename

\* The resource name of a group of `filename` found in `years`, when
\* nYearDirs year directories were discovered.
ResourceName(filename, years, nYearDirs) ==
    IF Len(years) = nYearDirs THEN COMMON_PREFIX \o filename
    ELSE IF Len(years) = 1 THEN <<UNDERSCORE>> \o years[1] \o <<DOT>> \o filename
    ELSE <<UNDERSCORE>> \o years[1] \o <<DOT>> \o filename

\* Mutant: the last entry of the group is taken as its sample.
PlanItem_LastSample(filename, group_entries, nYearDirs) ==
    LET years == [i \in 1..Len(group_entries) |-> group_entries[i].year]
        sample_entry == group_entries[Len(group_entries)]
    IN  [filename |-> filename,
         resource_name |-> ResourceName(filename, years, nYearDirs),
         hash |-> sample_entry.hash,
         years |-> years,
         source_path |-> sample_entry.path,
         size |-> sample_entry.size]

\* The item deduplication_plan.append(...) adds for one hash group.
PlanItem(filename, group_entries, nYearDirs) ==
    LET years == [i \in 1..Len(group_entries) |-> group_entries[i].year]
        sample_entry == group_entries[1]
    IN  [filename |-> filename,
         resource_name |-> ResourceName(filename, years, nYearDirs),
         hash |-> sample_entry.hash,
         years |-> years,
         source_path |-> sample_entry.path,
         size |-> sample_entry.size]

\* The items of all hash groups of one filename.
PlanForFile(filename, entries, nYearDirs) ==
    LET groups == HashGroups(entries)
    IN  [i \in 1..Len(groups) |-> PlanItem(filename, groups[i], nYearDirs)]

\* The order in which the analysis visits the filenames.
PlanKeys(db) == SortedStrings(db.keys)

\* deduplication_plan after the analysis loop over sorted(file_database.keys()).
RECURSIVE PlanOver(_, _, _)
PlanOver(keys, db, nYearDirs) ==
    IF keys = <<>> THEN <<>>
    ELSE PlanForFile(Head(keys), db.entries[Head(keys)], nYearDirs)
         \o PlanOver(Tail(keys), db, nYearDirs)

DeduplicationPlan(db, ydirs) == PlanOver(PlanKeys(db), db, Len(ydirs))

\* sorted(deduplication_plan, key=lambda x: x['resource_name']), a stable sort.
RECURSIVE InsertItem(_, _)
InsertItem(x, sortedSeq) ==
    IF sortedSeq = <<>> THEN <<x>>
    ELSE IF StrLess(x.resource_name, Head(sortedSeq).resource_name) THEN <<x>> \o sortedSeq
    ELSE <<Head(sortedSeq)>> \o InsertItem(x, Tail(sortedSeq))

RECURSIVE SortedPlan(_)
SortedPlan(items) ==
    IF items = <<>> THEN <<>>
    ELSE InsertItem(items[Len(items)], SortedPlan(SubSeq(items, 1, Len(items) - 1)))

\* ','.join(years)
RECURSIVE Join(_)
Join(years) ==
    IF years = <<>> THEN <<>>
    ELSE IF Len(years) = 1 THEN years[1]
    ELSE years[1] \o <<COMMA>> \o Join(Tail(years))

\* f"{item['resource_name']}|{item['filename']}|{years_str}"
MappingRow(item) ==
    item.resource_name \o <<PIPE>> \o item.filename \o <<PIPE>> \o Join(item.years)

\* Mutant: the rows are written in the order of the plan.
MappingLines_Unsorted(items) ==
    MAPPING_HEADER \o [i \in 1..Len(items) |-> MappingRow(items[i])]

\* The lines of file-mapping.txt for a plan.
MappingLines(items) ==
    LET ordered == SortedPlan(items)
    IN  MAPPING_HEADER \o [i \in 1..Len(ordered) |-> MappingRow(ordered[i])]

\* ------------------------------------------------------------------- state
VARIABLES
    prog,           \* which script is run: "dedup" or "build"
    sourceExists,   \* SOURCE_PATH exists
    dirs,           \* the year directories that exist under SOURCE_PATH
    fs,             \* fs[year][filename]: content of the file, 0 if there is none
    outExists,      \* OUTPUT_PATH exists
    store,          \* the resource files in OUTPUT_PATH: name -> content
    mapping,        \* OUTPUT_PATH/file-mapping.txt: [exists, lines]
    pc,             \* position of the running script
    status,         \* exit status of the run, -1 while it runs
    year_dirs,      \* local year_dirs
    file_database,  \* local file_database: [keys (insertion order), entries]
    plan,           \* local deduplication_plan
    copied,         \* number of items of the plan the copy loop has done
    hashed,         \* number of files calculate_md5 has read in this run
    copies,         \* the shutil.copy calls of this run, in order
    rerun,          \* an earlier run of this behaviour has ended
    prev,           \* output of the last successful run on the present input
    prior           \* names of the files OUTPUT_PATH held when this run began

vars == <<prog, sourceExists, dirs, fs, outExists, store, mapping, pc, status,
          year_dirs, file_database, plan, copied, hashed, copies, rerun, prev, prior>>

input == <<prog, sourceExists, dirs, fs>>
output == <<outExists, store, mapping>>
locals == <<year_dirs, file_database, plan, copied>>

\* "file-mapping.txt"
MAPPING_NAME == <<102, 105, 108, 101, 45, 109, 97, 112, 112, 105, 110, 103, 46, 116, 120, 116>>

EmptyStore == [n \in {} |-> 0]
NoMapping == [exists |-> FALSE, lines |-> <<>>]
EmptyDatabase == [keys |-> <<>>, entries |-> [f \in FILES |-> <<>>]]
NoPrev == [valid |-> FALSE, store |-> EmptyStore, lines |-> <<>>]
EmptyDir == [f \in FILES |-> 0]

\* The files present in a year directory.
FilesIn(y) == {f \in FILES : fs[y][f] /= 0}

\* Names of all files in OUTPUT_PATH.
OutputNames ==
    DOMAIN store \cup (IF mapping.exists THEN {MAPPING_NAME} ELSE {})

Init ==
    /\ prog \in {"dedup", "build"}
    /\ sourceExists \in BOOLEAN
    /\ dirs \in SUBSET YearUniverse
    /\ fs \in [YearUniverse -> [FILES -> {0} \cup Contents]]
    /\ \A y \in YearUniverse : fs[y][REQUIRED_DLL] \in RequiredContents
    /\ \A y \in YearUniverse \ dirs : fs[y] = EmptyDir
    /\ ~sourceExists => dirs = {}
    /\ outExists = FALSE
    /\ store = EmptyStore
    /\ mapping = NoMapping
    /\ pc = "start"
    /\ status = -1
    /\ year_dirs = <<>>
    /\ file_database = EmptyDatabase
    /\ plan = <<>>
    /\ copied = 0
    /\ hashed = 0
    /\ copies = <<>>
    /\ rerun = FALSE
    /\ prev = NoPrev
    /\ prior = {}

\* ----------------------------------------------------------------- actions
\* Mutant: the output directory is created if missing but not emptied.
CleanOutput_Keep(o) == o

\* shutil.rmtree(OUTPUT_PATH); OUTPUT_PATH.mkdir(parents=True): what is left
\* of the output `o` = [store, mapping].
CleanOutput(o) == [store |-> EmptyStore, mapping |-> NoMapping]

\* The run ends: exit(main()) with main's return value, or 1 for an
\* uncaught exception.
Exit(code) ==
    /\ pc' = (IF code = 0 THEN "done" ELSE "failed")
    /\ status' = code

\* _installer-deduplicate.py: SOURCE_PATH does not exist, return 1.
SourceMissing ==
    /\ pc = "start"
    /\ prog = "dedup"
    /\ ~sourceExists
    /\ Exit(1)
    /\ UNCHANGED <<input, output, locals, hashed, copies, rerun, prev, prior>>

\* Mutant: the output directory is created when missing and a directory
\* that exists is left as it is.
Clean_MkdirOnly ==
    /\ pc = "start"
    /\ prog = "dedup" => sourceExists
    /\ prior' = (IF outExists THEN OutputNames ELSE {})
    /\ outExists' = TRUE
    /\ pc' = "cleaned"
    /\ UNCHANGED <<input, store, mapping, status, locals, hashed, copies, rerun, prev>>

\* "Clean output directory": the first step of build.py, the step after the
\* SOURCE_PATH check of _installer-deduplicate.py.
Clean ==
    /\ pc = "start"
    /\ prog = "dedup" => sourceExists
    /\ prior' = (IF outExists THEN OutputNames ELSE {})
    /\ outExists' = TRUE
    /\ store' = CleanOutput([store |-> store, mapping |-> mapping]).store
    /\ mapping' = CleanOutput([store |-> store, mapping |-> mapping]).mapping
    /\ pc' = "cleaned"
    /\ UNCHANGED <<input, status, locals, hashed, copies, rerun, prev>>

\* shutil.rmtree(OUTPUT_PATH) raises part-way (an entry cannot be unlinked):
\* the entries `gone` are removed, the others are left, OUTPUT_PATH.mkdir is
\* not reached and the run ends with the uncaught exception.
CleanFail ==
    /\ pc = "start"
    /\ prog = "dedup" => sourceExists
    /\ outExists
    /\ \E gone \in SUBSET OutputNames :
        /\ gone /= OutputNames
        /\ store' = [n \in DOMAIN store \ gone |-> store[n]]
        /\ mapping' = (IF MAPPING_NAME \in gone THEN NoMapping ELSE mapping)
    /\ prior' = OutputNames
    /\ Exit(1)
    /\ UNCHANGED <<input, outExists, locals, hashed, copies, rerun, prev>>

\* The entries of SOURCE_PATH.
SourceEntries == dirs \cup {TEMP_DIR}

\* "Get all year directories", and the checks on the list: none found
\* (both scripts), an expected year missing (_installer-deduplicate.py).
\* build.py does not check SOURCE_PATH: iterdir() raises if it is missing.
Discover ==
    /\ pc = "cleaned"
    /\ IF ~sourceExists
       THEN /\ Exit(1)
            /\ UNCHANGED year_dirs
       ELSE \E listing \in Orders(SourceEntries) :
            /\ year_dirs' = YearDirs(listing)
            /\ IF year_dirs' = <<>>
               THEN Exit(1)
               ELSE IF prog = "dedup" /\ EXPECTED_YEARS \ Range(year_dirs') /= {}
               THEN Exit(1)
               ELSE /\ pc' = (IF prog = "dedup" THEN "discovered" ELSE "validated")
                    /\ UNCHANGED status
    /\ UNCHANGED <<input, output, file_database, plan, copied, hashed, copies, rerun, prev, prior>>

\* missing_years of the validation loop.
MissingYears(ydirs) == {y \in Range(ydirs) : FilesIn(y) = {}}

\* Mutant: the check for revit-ballet.dll is left out.
IncompleteYears_None(ydirs) == {}

\* incomplete_years of the validation loop.
IncompleteYears(ydirs) ==
    {y \in Range(ydirs) : FilesIn(y) /= {} /\ REQUIRED_DLL \notin FilesIn(y)}

\* _installer-deduplicate.py: "Validate that all year directories have the
\* required revit-ballet.dll".
Validate ==
    /\ pc = "discovered"
    /\ IF MissingYears(year_dirs) /= {} \/ IncompleteYears(year_dirs) /= {}
       THEN Exit(1)
       ELSE pc' = "validated" /\ UNCHANGED status
    /\ UNCHANGED <<input, output, locals, hashed, copies, rerun, prev, prior>>

\* The orders in which glob("*.dll") may enumerate every year directory.
GlobOrders ==
    {g \in [YearUniverse -> UNION {Orders(FilesIn(y)) : y \in YearUniverse}] :
        \A y \in YearUniverse : g[y] \in Orders(FilesIn(y))}

\* "Build database": stat and fingerprint every *.dll of every year directory.
Scan ==
    /\ pc = "validated"
    /\ \E glob \in GlobOrders :
        /\ file_database' = ScanAll(EmptyDatabase, year_dirs, glob, fs)
        /\ hashed' = HashedFiles(year_dirs, glob)
    /\ pc' = "scanned"
    /\ UNCHANGED <<input, output, status, year_dirs, plan, copied, copies, rerun, prev, prior>>

\* A file cannot be read during the scan: the exception ends the run after
\* k files were fingerprinted.
ScanFail ==
    /\ pc = "validated"
    /\ \E glob \in GlobOrders :
       \E k \in 0..(HashedFiles(year_dirs, glob) - 1) : hashed' = k
    /\ Exit(1)
    /\ UNCHANGED <<input, output, locals, copies, rerun, prev, prior>>

\* "Analyze deduplication opportunities": the plan is built in memory.
Analyze ==
    /\ pc = "scanned"
    /\ plan' = DeduplicationPlan(file_database, year_dirs)
    /\ copied' = 0
    /\ pc' = "copying"
    /\ UNCHANGED <<input, output, status, year_dirs, file_database, hashed, copies, rerun, prev, prior>>

\* Mutant: the copy is written under the file's own name, not under the
\* resource name.
CopyFile_ToFilename(st, src, dest) == (src[2] :> fs[src[1]][src[2]]) @@ st

\* shutil.copy(src, dest): dest is created or overwritten with src's bytes.
CopyFile(st, src, dest) == (dest :> fs[src[1]][src[2]]) @@ st

\* One iteration of "Copy deduplicated files".
CopyItem ==
    /\ pc = "copying"
    /\ copied < Len(plan)
    /\ LET item == plan[copied + 1]
       IN  /\ store' = CopyFile(store, item.source_path, item.resource_name)
           /\ copies' = Append(copies, [src |-> item.source_path, dest |-> item.resource_name])
    /\ copied' = copied + 1
    /\ UNCHANGED <<input, outExists, mapping, pc, status, year_dirs, file_database, plan,
                   hashed, rerun, prev, prior>>

\* shutil.copy raises: the run ends; the destination is untouched or left
\* truncated (content 0).
CopyFail ==
    /\ pc = "copying"
    /\ copied < Len(plan)
    /\ \/ UNCHANGED store
       \/ store' = (plan[copied + 1].resource_name :> 0) @@ store
    /\ Exit(1)
    /\ UNCHANGED <<input, outExists, mapping, locals, hashed, copies, rerun, prev, prior>>

\* "Generate mapping file": file-mapping.txt is written and main returns 0.
WriteMapping ==
    /\ pc = "copying"
    /\ copied = Len(plan)
    /\ mapping' = [exists |-> TRUE, lines |-> MappingLines(plan)]
    /\ Exit(0)
    /\ UNCHANGED <<input, outExists, store, locals, hashed, copies, rerun, prev, prior>>

\* Where a write that stops inside a line cuts it: after its first
\* character or before its last.
TornCuts(line) == {c \in {1, Len(line) - 1} : 0 < c /\ c < Len(line)}

\* The write of file-mapping.txt fails between two lines: the file is
\* missing (open failed), empty, or holds the header and a proper prefix of
\* the rows.
WriteFail ==
    /\ pc = "copying"
    /\ copied = Len(plan)
    /\ \/ UNCHANGED mapping
       \/ \E k \in {0} \cup (Len(MAPPING_HEADER)..(Len(MappingLines(plan)) - 1)) :
            mapping' = [exists |-> TRUE, lines |-> SubSeq(MappingLines(plan), 1, k)]
    /\ Exit(1)
    /\ UNCHANGED <<input, outExists, store, locals, hashed, copies, rerun, prev, prior>>

\* The write of file-mapping.txt fails inside a row: the file holds the
\* header, a prefix of the rows and the next row cut short.
WriteTorn ==
    /\ pc = "copying"
    /\ copied = Len(plan)
    /\ \E k \in Len(MAPPING_HEADER)..(Len(MappingLines(plan)) - 1) :
        \E c \in TornCuts(MappingLines(plan)[k + 1]) :
            mapping' = [exists |-> TRUE,
                        lines |-> SubSeq(MappingLines(plan), 1, k)
                                  \o <<SubSeq(MappingLines(plan)[k + 1], 1, c)>>]
    /\ Exit(1)
    /\ UNCHANGED <<input, outExists, store, locals, hashed, copies, rerun, prev, prior>>

\* The process state of a fresh invocation.
FreshRun ==
    /\ pc' = "start"
    /\ status' = -1
    /\ year_dirs' = <<>>
    /\ file_database' = EmptyDatabase
    /\ plan' = <<>>
    /\ copied' = 0
    /\ hashed' = 0
    /\ copies' = <<>>
    /\ rerun' = TRUE

\* The script is invoked again on the same build directories.
Rerun ==
    /\ pc = "done"
    /\ FreshRun
    /\ prev' = [valid |-> TRUE, store |-> store, lines |-> mapping.lines]
    /\ UNCHANGED <<input, output, prior>>

\* The upstream build changes one year directory (a file is rebuilt, added
\* or removed, the directory is created or deleted), then the script is
\* invoked again.
Rebuild ==
    /\ pc = "done"
    /\ sourceExists
    /\ \E y \in YearUniverse :
        \/ /\ y \in dirs
           /\ \E f \in FILES, c \in RebuildContents :
                /\ fs[y][f] /= c
                /\ fs' = [fs EXCEPT ![y][f] = c]
           /\ UNCHANGED dirs
        \/ /\ y \in dirs
           /\ dirs' = dirs \ {y}
           /\ fs' = [fs EXCEPT ![y] = EmptyDir]
        \/ /\ y \notin dirs
           /\ dirs' = dirs \cup {y}
           /\ UNCHANGED fs
    /\ FreshRun
    /\ prev' = NoPrev
    /\ UNCHANGED <<prog, sourceExists, output, prior>>

Run ==
    \/ SourceMissing
    \/ Clean
    \/ Discover
    \/ Validate
    \/ Scan
    \/ ScanFail
    \/ Analyze
    \/ CopyItem
    \/ CopyFail
    \/ WriteMapping
    \/ WriteFail

\* Runs in which the removal of the prior output and the write of a line
\* of file-mapping.txt do not stop part-way, repeated on the same build
\* directories.
Next == Run \/ Rerun

Spec == Init /\ [][Next]_vars

\* Sequences of runs, of any length, between which the upstream build
\* changes its output, and in which the removal of the prior output and the
\* write of a row of file-mapping.txt may stop part-way.
InitRebuild ==
    /\ Init
    /\ \A y \in YearUniverse, f \in FILES : fs[y][f] \in {0} \cup RebuildContents

NextRebuild == Run \/ CleanFail \/ WriteTorn \/ Rerun \/ Rebuild

SpecRebuild == InitRebuild /\ [][NextRebuild]_vars

\* -------------------------------------------------------------- properties
\* What the installer reads back, written from the file format and from the
\* build directories, not from the plan.

\* The artifact files of the build directories, as <<version, filename>>.
Occurrences == {o \in dirs \X FILES : o[2] \in FilesIn(o[1])}

\* The digest of the file f of version v.
DigestOf(v, f) == calculate_md5(fs[v][f])

\* The distinct (filename, digest) pairs of the build directories.
DigestPairs == {<<o[2], DigestOf(o[1], o[2])>> : o \in Occurrences}

\* The versions whose f has digest d.
ClassVersions(f, d) == {v \in dirs : f \in FilesIn(v) /\ DigestOf(v, f) = d}

\* str.split(sep)
RECURSIVE Split(_, _)
Split(str, sep) ==
    IF \A i \in 1..Len(str) : str[i] /= sep THEN <<str>>
    ELSE LET k == CHOOSE i \in 1..Len(str) :
                    str[i] = sep /\ \A j \in 1..(i - 1) : str[j] /= sep
         IN  <<SubSeq(str, 1, k - 1)>> \o Split(SubSeq(str, k + 1, Len(str)), sep)

\* The data rows of a mapping file: the lines that are neither blank nor
\* comments.
RECURSIVE DataRows(_)
DataRows(lines) ==
    IF lines = <<>> THEN <<>>
    ELSE (IF Head(lines) = <<>> \/ Head(lines)[1] = 35 THEN <<>> ELSE <<Head(lines)>>)
         \o DataRows(Tail(lines))

\* A data row as the installer parses it.
ParseRow(row) ==
    LET fields == Split(row, PIPE)
    IN  [nfields |-> Len(fields),
         resource |-> fields[1],
         filename |-> IF Len(fields) >= 2 THEN fields[2] ELSE <<>>,
         versions |-> IF Len(fields) >= 3 THEN Split(fields[3], COMMA) ELSE <<>>]

ReadManifest(lines) ==
    LET rows == DataRows(lines)
    IN  [i \in 1..Len(rows) |-> ParseRow(rows[i])]

\* The rows of the manifest m that apply to file f of version v.
RowsFor(m, v, f) ==
    {i \in 1..Len(m) : m[i].filename = f /\ v \in Range(m[i].versions)}

\* Two versions hold different contents of f that have the same digest.
Collision(f, v, w) ==
    /\ {v, w} \subseteq dirs
    /\ f \in FilesIn(v) /\ f \in FilesIn(w)
    /\ fs[v][f] /= fs[w][f]
    /\ DigestOf(v, f) = DigestOf(w, f)

C2_FileCountExact ==
    pc = "done" => Cardinality(OutputNames) = Cardinality(DigestPairs)

\* C2 amended: after a successful run the number of resource files in the
\* output directory equals the number of distinct (filename, digest) pairs;
\* the directory holds exactly one more file, file-mapping.txt.
C2_Minimality ==
    pc = "done" =>
        /\ Cardinality(DOMAIN store) = Cardinality(DigestPairs)
        /\ MAPPING_NAME \notin DOMAIN store
        /\ OutputNames = DOMAIN store \cup {MAPPING_NAME}
        /\ Cardinality(OutputNames) = Cardinality(DigestPairs) + 1

\* A successful run in which files are shared: fewer pairs than files.
C2_Witness ==
    /\ pc = "done"
    /\ Cardinality(DigestPairs) >= 3
    /\ Cardinality(Occurrences) > Cardinality(DigestPairs)

\* C3: no two entries of the deduplication plan have the same resource
\* name, no entry is named like the mapping file, and the copy loop never
\* writes to a name that is already in the output directory.
C3_NamingUniqueness ==
    /\ \A i, j \in 1..Len(plan) :
        i /= j => plan[i].resource_name /= plan[j].resource_name
    /\ \A i \in 1..Len(plan) : plan[i].resource_name /= MAPPING_NAME
    /\ (pc = "copying" /\ copied < Len(plan))
         => plan[copied + 1].resource_name \notin OutputNames

\* A plan with several classes of one filename and classes of two filenames,
\* all copied.
C3_Witness ==
    /\ pc = "done"
    /\ \E i, j \in 1..Len(plan) :
        i /= j /\ plan[i].filename = plan[j].filename
    /\ \E i, j \in 1..Len(plan) : plan[i].filename /= plan[j].filename
    /\ \E i \in 1..Len(plan) : Len(plan[i].years) = 2

\* C4: a successful run on the build directories of the last successful run
\* leaves the mapping file and the resource name -> content mapping that
\* run left, whatever the orders in which iterdir() and glob() enumerated
\* the directories in the two runs.
C4_Determinism ==
    (pc = "done" /\ prev.valid) =>
        /\ mapping.lines = prev.lines
        /\ store = prev.store

\* A second successful run on unchanged directories, in which glob()
\* yielded revit-ballet.dll before a.dll, with shared and unshared files.
C4_Witness ==
    /\ pc = "done"
    /\ prev.valid
    /\ rerun
    /\ file_database.keys = <<REQUIRED_DLL, A_DLL>>
    /\ Len(plan) >= 3
    /\ \E i \in 1..Len(plan) : Len(plan[i].years) = 2

\* The smallest version of a non-empty set of versions.
MinVersion(V) == CHOOSE m \in V : \A v \in V : ~StrLess(v, m)

\* The name the policy gives the class of filename f with versions V.
PolicyName(f, V) ==
    IF V = dirs THEN COMMON_PREFIX \o f
    ELSE <<UNDERSCORE>> \o MinVersion(V) \o <<DOT>> \o f

\* "_2020.a.dll", "_2022.a.dll"
NAME_2020_A == <<95, 50, 48, 50, 48, 46, 97, 46, 100, 108, 108>>
NAME_2022_A == <<95, 50, 48, 50, 50, 46, 97, 46, 100, 108, 108>>

\* Scenario 3 for a.dll: identical in 2020 and 2021, different in 2022.
Scenario3 ==
    /\ dirs = {Y2020, Y2021, Y2022}
    /\ \A y \in dirs : A_DLL \in FilesIn(y)
    /\ DigestOf(Y2020, A_DLL) = DigestOf(Y2021, A_DLL)
    /\ DigestOf(Y2022, A_DLL) /= DigestOf(Y2020, A_DLL)

\* The entries of the plan for filename f, as <<resource name, versions>>.
EntriesOf(f) ==
    {<<plan[i].resource_name, plan[i].years>> : i \in {k \in 1..Len(plan) : plan[k].filename = f}}

\* C5: once the plan is built, every entry's version list is an equivalence
\* class of its filename and its name is "_common." + f if the class holds
\* every discovered version, else "_" + (smallest version of the class)
\* + "." + f; in scenario 3 the entries of the file are _2020.a.dll for
\* (2020, 2021) and _2022.a.dll for (2022).
C5_NamingPolicy ==
    pc \in {"copying", "done"} =>
        /\ \A i \in 1..Len(plan) :
            /\ Range(plan[i].years) = ClassVersions(plan[i].filename, plan[i].hash)
            /\ plan[i].years /= <<>>
            /\ plan[i].resource_name = PolicyName(plan[i].filename, Range(plan[i].years))
        /\ Scenario3 =>
            EntriesOf(A_DLL) = {<<NAME_2020_A, <<Y2020, Y2021>> >>, <<NAME_2022_A, <<Y2022>> >>}

\* Scenario 3 has been planned and written out.
C5_Witness ==
    /\ pc = "done"
    /\ Scenario3
    /\ Len(plan) >= 3

\* A sequence of strings is strictly ascending.
StrictlyAscending(seq) ==
    \A i \in 1..(Len(seq) - 1) : StrLess(seq[i], seq[i + 1])

\* "_common.a.dll|a.dll|2020,2021"
ROW_SCENARIO1 ==
    <<95, 99, 111, 109, 109, 111, 110, 46, 97, 46, 100, 108, 108, 124,
      97, 46, 100, 108, 108, 124, 50, 48, 50, 48, 44, 50, 48, 50, 49>>

\* Scenario 1: two versions, a.dll the only file, identical in both.
Scenario1 ==
    /\ dirs = {Y2020, Y2021}
    /\ \A y \in dirs : FilesIn(y) = {A_DLL}
    /\ fs[Y2020][A_DLL] = fs[Y2021][A_DLL]

\* C6: the mapping file of a successful run has one data row per entry of
\* the plan; read back, the rows are strictly ascending by resource name,
\* every row has the three fields resource name, filename, versions of one
\* entry, the versions strictly ascending; in scenario 1 the only row is
\* _common.a.dll|a.dll|2020,2021.
C6_ManifestShape ==
    LET m == ReadManifest(mapping.lines)
    IN
        pc = "done" =>
            /\ SubSeq(mapping.lines, 1, Len(MAPPING_HEADER)) = MAPPING_HEADER
            /\ Len(mapping.lines) = Len(MAPPING_HEADER) + Len(plan)
            /\ Len(m) = Len(plan)
            /\ StrictlyAscending([i \in 1..Len(m) |-> m[i].resource])
            /\ \A i \in 1..Len(m) :
                /\ m[i].nfields = 3
                /\ StrictlyAscending(m[i].versions)
                /\ \E k \in 1..Len(plan) :
                    /\ plan[k].resource_name = m[i].resource
                    /\ plan[k].filename = m[i].filename
                    /\ plan[k].years = m[i].versions
            /\ \A k \in 1..Len(plan) :
                \E i \in 1..Len(m) : plan[k].resource_name = m[i].resource
            /\ Scenario1 => DataRows(mapping.lines) = <<ROW_SCENARIO1>>

\* A mapping file whose row order differs from the order of the plan, with
\* a row of several versions.
C6_Witness ==
    LET m == ReadManifest(mapping.lines)
    IN
        /\ pc = "done"
        /\ Len(plan) >= 3
        /\ \E i \in 1..Len(plan) : plan[i].resource_name /= m[i].resource
        /\ \E i \in 1..Len(m) : Len(m[i].versions) >= 2

\* The build directories fail the checks of _installer-deduplicate.py: an
\* expected year has no directory, or a year directory has no *.dll or no
\* revit-ballet.dll.
InvalidInput ==
    \/ EXPECTED_YEARS \ dirs /= {}
    \/ \E y \in dirs : FilesIn(y) = {} \/ REQUIRED_DLL \notin FilesIn(y)

\* C7: a run of _installer-deduplicate.py on build directories that fail the
\* checks never fingerprints a file, never copies a resource, never gets
\* past the validation, and ends with status 1.
C7_MissingInputAborts ==
    (prog = "dedup" /\ InvalidInput) =>
        /\ hashed = 0
        /\ copies = <<>>
        /\ pc \in {"start", "cleaned", "discovered", "failed"}
        /\ pc = "failed" => status = 1
        /\ status \in {-1, 1}

\* The validation has ended a run in which every year has a directory and
\* one of them lacks revit-ballet.dll.
C7_Witness ==
    /\ prog = "dedup"
    /\ pc = "failed"
    /\ status = 1
    /\ dirs = EXPECTED_YEARS
    /\ Len(year_dirs) = Cardinality(EXPECTED_YEARS)
    /\ \E y \in dirs : FilesIn(y) = {A_DLL}
    /\ \A y \in dirs : FilesIn(y) /= {}

\* C8: in a successful run the number of copies equals the number of
\* distinct (filename, digest) pairs, and for every pair exactly one copy
\* reads the file of a version of that pair's class.
C8_OneCopyPerEntry ==
    pc = "done" =>
        /\ Len(copies) = Cardinality(DigestPairs)
        /\ \A p \in DigestPairs :
            Cardinality({i \in 1..Len(copies) :
                            /\ copies[i].src[2] = p[1]
                            /\ copies[i].src[1] \in ClassVersions(p[1], p[2])}) = 1

\* A successful run with a class of three versions and a class of one.
C8_Witness ==
    /\ pc = "done"
    /\ \E p \in DigestPairs : Cardinality(ClassVersions(p[1], p[2])) = 3
    /\ \E p \in DigestPairs : Cardinality(ClassVersions(p[1], p[2])) = 1
    /\ Len(copies) < Cardinality(Occurrences)

\* The names the copy loop of this run has written.
WrittenNames == {copies[i].dest : i \in 1..Len(copies)}

\* C9: from the cleaning step of a run on, as long as the run has not
\* failed, the output directory holds only files this run has written, and
\* after a successful run every resource
\* file has the content this run copied into it: nothing a prior run left
\* survives unless this run writes it again.
C9_FullRebuild ==
    /\ pc \notin {"start", "failed"} =>
        /\ DOMAIN store \subseteq WrittenNames
        /\ mapping.exists => pc = "done"
    /\ pc = "done" =>
        /\ OutputNames = WrittenNames \cup {MAPPING_NAME}
        /\ \A i \in 1..Len(copies) :
            store[copies[i].dest] = fs[copies[i].src[1]][copies[i].src[2]]

\* A successful run after a rebuild, before which the output directory held
\* a resource file that this run did not write.
C9_Witness ==
    /\ pc = "done"
    /\ rerun
    /\ \E n \in prior : n \notin OutputNames
    /\ \E n \in prior : n \in WrittenNames

\* The items of the plan for filename f.
ItemsOf(f) == {k \in 1..Len(plan) : plan[k].filename = f}

\* C10: in the plan built from the grouping, every version of an entry holds
\* the entry's filename with the entry's digest, two entries of one filename
\* have different digests, every entry has a version, the version sets of
\* the entries of one filename are pairwise disjoint, and their union is the
\* set of versions whose directory holds the filename.
C10_EquivalenceClasses ==
    pc \in {"copying", "done"} =>
        /\ \A k \in 1..Len(plan) :
            /\ plan[k].years /= <<>>
            /\ \A i \in 1..Len(plan[k].years) :
                /\ plan[k].filename \in FilesIn(plan[k].years[i])
                /\ DigestOf(plan[k].years[i], plan[k].filename) = plan[k].hash
                /\ \A j \in 1..Len(plan[k].years) : i /= j => plan[k].years[i] /= plan[k].years[j]
        /\ \A f \in FILES :
            /\ \A k, l \in ItemsOf(f) :
                k /= l => /\ plan[k].hash /= plan[l].hash
                          /\ Range(plan[k].years) \cap Range(plan[l].years) = {}
            /\ UNION {Range(plan[k].years) : k \in ItemsOf(f)} = {v \in dirs : f \in FilesIn(v)}

\* A grouping in which a digest recurs after another one: a.dll has one
\* digest in 2020 and 2022 and another in 2021.
C10_Witness ==
    /\ pc = "copying"
    /\ dirs = {Y2020, Y2021, Y2022}
    /\ \A y \in dirs : A_DLL \in FilesIn(y)
    /\ DigestOf(Y2020, A_DLL) = DigestOf(Y2022, A_DLL)
    /\ DigestOf(Y2021, A_DLL) /= DigestOf(Y2020, A_DLL)
    /\ Cardinality(ItemsOf(A_DLL)) = 2

\* Two versions hold f with the same digest and different sizes.
SizeCollision(f, v, w) ==
    /\ Collision(f, v, w)
    /\ SizeOf(fs[v][f]) /= SizeOf(fs[w][f])

\* C11: when two occurrences of a filename have the same digest and
\* different sizes, the run does not succeed, a run that has ended has ended
\* with a non-zero status, and neither the plan, nor the resource files, nor
\* the mapping file hold an entry made for that class from one member's
\* size and bytes.
C11_SizeCollisionFatal ==
    \A f \in FILES : \A v, w \in dirs :
        SizeCollision(f, v, w) =>
            /\ pc /= "done"
            /\ status /= 0
            /\ \A k \in 1..Len(plan) :
                ~(plan[k].filename = f /\ plan[k].hash = DigestOf(v, f))
            /\ \A n \in DOMAIN store : store[n] \notin {fs[v][f], fs[w][f]}
            /\ LET m == ReadManifest(mapping.lines)
               IN  RowsFor(m, v, f) = {} /\ RowsFor(m, w, f) = {}

\* The step by which the discovery or the validation of the build
\* directories ends a run of _installer-deduplicate.py.
ValidationAbort ==
    /\ prog = "dedup"
    /\ pc \in {"cleaned", "discovered"}
    /\ pc' = "failed"

\* C12 as stated: when the discovery or the validation of the build
\* directories aborts a run of _installer-deduplicate.py, the output
\* directory holds the files it held when the run began.
C12_ValidationAbortKeepsStore ==
    [][ValidationAbort => OutputNames' = prior]_vars

\* C12: the prior output is removed before the build directories are
\* looked at: while a run of _installer-deduplicate.py discovers and
\* validates them the output directory exists and is empty, and the step by
\* which the discovery or the validation aborts the run leaves it empty,
\* whatever it held when the run began.
C12_ValidationAbortEmptiesStore ==
    [][(prog = "dedup" /\ pc \in {"cleaned", "discovered"}) =>
            /\ outExists /\ store = EmptyStore /\ mapping = NoMapping
            /\ ValidationAbort =>
                outExists' /\ store' = EmptyStore /\ mapping' = NoMapping]_vars

\* The validation has aborted a run that began with resource files and a
\* mapping file in the output directory: an expected year has lost its
\* directory or a directory its revit-ballet.dll since the last run.
C12_Witness ==
    /\ prog = "dedup"
    /\ pc = "failed"
    /\ status = 1
    /\ sourceExists
    /\ InvalidInput
    /\ MAPPING_NAME \in prior
    /\ prior \ {MAPPING_NAME} /= {}
    /\ outExists /\ store = EmptyStore /\ mapping = NoMapping

\* The resource a data row names: its first field.
ResourceOf(row) == Split(row, PIPE)[1]

\* Every data row of the lines names a file of the output directory.
RowsResolve(lines) ==
    LET rows == DataRows(lines)
    IN  \A i \in 1..Len(rows) : ResourceOf(rows[i]) \in DOMAIN store

\* C13 as stated: at every point of every run each data row of
\* file-mapping.txt names a resource file that exists in the output
\* directory, and file-mapping.txt exists in a run that has begun only when
\* the whole plan has been copied.
C13_ManifestRowsResolve ==
    /\ RowsResolve(mapping.lines)
    /\ (mapping.exists /\ pc /= "start") =>
            /\ copied = Len(plan)
            /\ \A k \in 1..Len(plan) : plan[k].resource_name \in DOMAIN store

\* C13: the step that completes the removal of the prior output removes
\* file-mapping.txt with it, and from then on every step of the run, a
\* failing read, copy or write included, and the start of the next run end
\* in a state where each data row of file-mapping.txt names a file of the
\* output directory, the last row of a file-mapping.txt whose write failed
\* excepted, which may be cut short; file-mapping.txt is written only when
\* every resource of the plan has been copied.
C13_ManifestAfterRemoval ==
    [][/\ (pc = "start" /\ pc' = "cleaned") => ~mapping'.exists
       /\ (pc \notin {"start", "failed"} \/ pc' = "cleaned") =>
            /\ \A rows \in {DataRows(mapping'.lines)} :
                \A i \in 1..Len(rows) :
                    (i < Len(rows) \/ pc' /= "failed") =>
                        ResourceOf(rows[i]) \in DOMAIN store'
            /\ (mapping'.exists /\ mapping' /= mapping) =>
                /\ pc = "copying"
                /\ copied = Len(plan)
                /\ \A k \in 1..Len(plan) : plan[k].resource_name \in DOMAIN store]_vars

\* A run that began with the output of an earlier run has copied its whole
\* plan and has failed while it wrote file-mapping.txt, which holds two
\* rows or more and lacks rows.
C13_Witness ==
    /\ pc = "failed"
    /\ rerun
    /\ MAPPING_NAME \in prior
    /\ mapping.exists
    /\ copied = Len(plan)
    /\ Len(DataRows(mapping.lines)) >= 2
    /\ Len(DataRows(mapping.lines)) < Len(plan)

====
